---- MODULE Spec2Model ----
(***************************************************************************)
(* Model of the tftp crate: the netascii transcoder (netascii.rs), the     *)
(* packet codec (packet.rs) and the blocking GET session (client.rs).      *)
(*                                                                         *)
(* Strings are sequences of UTF-8 bytes, buffers are sequences of bytes    *)
(* (0..255).  Option<T> is a record with a tag: None, Some(v); a slice     *)
(* index out of range or an unwrap of None is the outcome Panic.           *)
(***************************************************************************)
EXTENDS Integers, Sequences, FiniteSets, TLC

VARIABLES
    pc,            \* position of Client::get: "start", "recv", "done", "failed", "panicked";
                   \* "put_returned" once Client::put has returned
    result,        \* value returned by Client::get (<<>> while it runs)
    remote_addr,   \* Client.remote_addr
    first_packet,  \* local first_packet of Client::get
    current_id,    \* local current_id of Client::get (u16)
    bufs,          \* local buffer pool bufs of Client::get
    writer,        \* bytes written to the writer (the sink)
    sent,          \* datagrams sent on the socket, in order: [to, data]
    rx,            \* the datagram last returned by recv_from: <<>> or <<[from, data]>>
    nrecv,         \* number of datagrams returned by recv_from so far
    op,            \* codec harness: the operation last applied
    arg,           \* codec harness: its input
    res,           \* codec harness: its output
    handlers,      \* server.rs: the RequestHandler futures spawned on the reactor, in order
    thread,        \* server.rs: 0 when the reactor's thread is between two polls, i when
                   \* it is held inside the poll of handler i
    srv_rx,        \* server.rs: the datagram last returned by a recv_from of the server:
                   \* <<>> or <<[sock, from, data]>>, sock 0 being the listening socket
    client_new     \* client_new.rs: the Client of that module and the current_state of
                   \* its get: [current_state, remote_addr, writer, sent, rx, nrecv, result]

sessionVars == <<pc, result, remote_addr, first_packet, current_id, bufs, writer, sent, rx, nrecv>>
codecVars == <<op, arg, res>>
serverVars == <<handlers, thread, srv_rx>>
vars == <<pc, result, remote_addr, first_packet, current_id, bufs, writer, sent, rx, nrecv,
          op, arg, res, handlers, thread, srv_rx, client_new>>

----------------------------------------------------------------------------
(* Bounds of the model *)

\* longest string (file name, message) the codec harness draws
MaxStrLen == 3
\* longest raw buffer the decode harness draws
MaxBufLen == 5
\* longest payload the codec harness puts into a data packet
MaxDataLen == 3
\* number of datagrams a modelled GET session receives
MaxRecv == 3

----------------------------------------------------------------------------
(* Option and basic byte helpers *)

None == [tag |-> "None", val |-> <<>>]
Some(v) == [tag |-> "Some", val |-> <<v>>]
Panic == [tag |-> "Panic", val |-> <<>>]
IsSome(o) == o.tag = "Some"
Unwrap(o) == o.val[1]

NUL == 0
LF == 10
CR == 13

U16 == 65536
Hi(v) == v \div 256
Lo(v) == v % 256

\* s[from..] with a 0-based start, as a Rust slice (the caller checks the range)
SliceFrom(s, from) == SubSeq(s, from + 1, Len(s))
\* s[..to]
SliceTo(s, to) == SubSeq(s, 1, to)

Zeroes(n) == [i \in 1..n |-> 0]

\* All sequences over S of length at most n
SeqsUpTo(S, n) == UNION {[1..k -> S] : k \in 0..n}

----------------------------------------------------------------------------
(* netascii.rs *)

\* the test of the fast path looking for line feeds only
is_escape_required_lf_only(s) == \E i \in 1..Len(s) : s[i] = LF

is_escape_required(s) == \E i \in 1..Len(s) : s[i] = CR \/ s[i] = LF

RECURSIVE from_netascii_loop_keeps_bare_cr(_, _, _)
\* the loop of from_netascii letting through a carriage return that starts no escape
from_netascii_loop_keeps_bare_cr(s, i, decoded) ==
    IF i > Len(s) THEN Some(decoded)
    ELSE IF s[i] = CR /\ i + 1 <= Len(s) /\ s[i + 1] = LF
         THEN from_netascii_loop_keeps_bare_cr(s, i + 2, Append(decoded, LF))
         ELSE IF s[i] = CR /\ i + 1 <= Len(s) /\ s[i + 1] = NUL
         THEN from_netascii_loop_keeps_bare_cr(s, i + 2, Append(decoded, CR))
         ELSE from_netascii_loop_keeps_bare_cr(s, i + 1, Append(decoded, s[i]))

RECURSIVE from_netascii_loop(_, _, _)
\* the loop of from_netascii: i is the position of chars, decoded the output so far
from_netascii_loop(s, i, decoded) ==
    IF i > Len(s) THEN Some(decoded)
    ELSE IF s[i] = CR
         THEN IF i + 1 > Len(s) THEN None
              ELSE IF s[i + 1] = LF THEN from_netascii_loop(s, i + 2, Append(decoded, LF))
              ELSE IF s[i + 1] = NUL THEN from_netascii_loop(s, i + 2, Append(decoded, CR))
              ELSE None
         ELSE from_netascii_loop(s, i + 1, Append(decoded, s[i]))

from_netascii(s) ==
    IF ~is_escape_required(s) THEN Some(s)
    ELSE from_netascii_loop(s, 1, <<>>)

\* to_netascii with the carriage return left bare (the NUL after it forgotten)
to_netascii_char_bare_cr(c) ==
    IF c = LF THEN <<CR, LF>>
    ELSE <<c>>

\* the match of to_netascii's loop body
to_netascii_char(c) ==
    IF c = LF THEN <<CR, LF>>
    ELSE IF c = CR THEN <<CR, NUL>>
    ELSE <<c>>

RECURSIVE to_netascii_loop(_, _, _)
to_netascii_loop(s, i, encoded) ==
    IF i > Len(s) THEN encoded
    ELSE to_netascii_loop(s, i + 1, encoded \o to_netascii_char(s[i]))

to_netascii(s) ==
    IF ~is_escape_required(s) THEN s
    ELSE to_netascii_loop(s, 1, <<>>)

----------------------------------------------------------------------------
(* std library pieces the codec calls *)

\* Cursor::read_u16::<BigEndian> at 0-based position pos: Err (None) on a short read
read_u16(data, pos) ==
    IF pos + 2 <= Len(data) THEN Some(256 * data[pos + 1] + data[pos + 2]) ELSE None

write_u16(v) == <<Hi(v), Lo(v)>>

\* Writing bytes at the start of a Cursor<Vec<u8>>: overwrites, extends when longer
cursor_write(buf, bytes) ==
    IF Len(bytes) >= Len(buf) THEN bytes
    ELSE bytes \o SubSeq(buf, Len(bytes) + 1, Len(buf))

IsCont(b) == b >= 128 /\ b <= 191

RECURSIVE from_utf8_ok(_, _)
\* str::from_utf8(..).ok(): whether the bytes from position i on are well-formed UTF-8
from_utf8_ok(b, i) ==
    IF i > Len(b) THEN TRUE
    ELSE LET c == b[i]
             has(k) == i + k <= Len(b)
         IN
         IF c < 128 THEN from_utf8_ok(b, i + 1)
         ELSE IF c >= 194 /\ c <= 223
              THEN has(1) /\ IsCont(b[i + 1]) /\ from_utf8_ok(b, i + 2)
         ELSE IF c >= 224 /\ c <= 239
              THEN /\ has(2)
                   /\ IsCont(b[i + 1]) /\ IsCont(b[i + 2])
                   /\ (c = 224 => b[i + 1] >= 160)
                   /\ (c = 237 => b[i + 1] <= 159)
                   /\ from_utf8_ok(b, i + 3)
         ELSE IF c >= 240 /\ c <= 244
              THEN /\ has(3)
                   /\ IsCont(b[i + 1]) /\ IsCont(b[i + 2]) /\ IsCont(b[i + 3])
                   /\ (c = 240 => b[i + 1] >= 144)
                   /\ (c = 244 => b[i + 1] <= 143)
                   /\ from_utf8_ok(b, i + 4)
         ELSE FALSE

\* position of the first NUL of s at or after position i, Len(s) + 1 when there is none
RECURSIVE find_nul(_, _)
find_nul(s, i) ==
    IF i > Len(s) THEN Len(s) + 1
    ELSE IF s[i] = NUL THEN i
    ELSE find_nul(s, i + 1)

\* s.split('\0'): the first part (always present)
split_first(s) == SubSeq(s, 1, find_nul(s, 1) - 1)

\* s.split('\0'): the second part, None when s holds no NUL
split_second(s) ==
    LET n1 == find_nul(s, 1) IN
    IF n1 > Len(s) THEN None
    ELSE Some(SubSeq(s, n1 + 1, find_nul(s, n1 + 1) - 1))

----------------------------------------------------------------------------
(* packet.rs: enumerations *)

RRQ == 1
WRQ == 2
DATA == 3
ACK == 4
ERROR == 5

\* from_u16 with a default member for the values it does not know
Opcode_from_u16_defaulting(opcode) ==
    IF opcode \in 1..5 THEN Some(opcode) ELSE Some(ERROR)

Opcode_from_u16(opcode) ==
    CASE opcode = 1 -> Some(RRQ)
      [] opcode = 2 -> Some(WRQ)
      [] opcode = 3 -> Some(DATA)
      [] opcode = 4 -> Some(ACK)
      [] opcode = 5 -> Some(ERROR)
      [] OTHER -> None

Modes == {"NetAscii", "Octet"}

STR_NETASCII == <<110, 101, 116, 97, 115, 99, 105, 105>>
STR_OCTET == <<111, 99, 116, 101, 116>>

Mode_as_str(mode) ==
    IF mode = "NetAscii" THEN STR_NETASCII ELSE STR_OCTET

Mode_from_str(s) ==
    IF s = STR_NETASCII THEN Some("NetAscii")
    ELSE IF s = STR_OCTET THEN Some("Octet")
    ELSE None

\* Error codes are modelled by their discriminants 0..7
Error_from_u16(code) ==
    IF code \in 0..7 THEN Some(code) ELSE None

\* cur.read_u16::<BigEndian>().ok() chained into Opcode::from_u16, the start of every decode
read_opcode(data) ==
    LET v == read_u16(data, 0) IN
    IF IsSome(v) THEN Opcode_from_u16(Unwrap(v)) ELSE None

----------------------------------------------------------------------------
(* packet.rs: RawPacket *)

RawPacket_new(buf, len) == [buf |-> buf, len |-> len]

packet_buf(raw) == SliceTo(raw.buf, raw.len)

\* a get_buffer clearing the encoded packet only, the bytes past len left as they were
get_buffer_first_len(raw) ==
    [i \in 1..Len(raw.buf) |-> IF i <= raw.len THEN 0 ELSE raw.buf[i]]

\* RawPacket::get_buffer: the buffer, every byte zeroed
get_buffer(raw) == [i \in 1..Len(raw.buf) |-> 0]

\* `x + 1` and `x += 1` on a u16: the sum when it fits; at 65535 a build with overflow
\* checks (the default of a debug build) panics and a build without them wraps to 0
u16_add_one(x) ==
    IF x + 1 < U16 THEN {Some(x + 1)} ELSE {Some((x + 1) % U16), Panic}

----------------------------------------------------------------------------
(* packet.rs: RequestPacket *)

read_request(filename, mode) ==
    [type |-> "ReadRequest", filename |-> to_netascii(filename), mode |-> mode]

write_request(filename, mode) ==
    [type |-> "WriteRequest", filename |-> to_netascii(filename), mode |-> mode]

Request_opcode(p) == IF p.type = "ReadRequest" THEN RRQ ELSE WRQ

\* len() without the byte that ends the mode
Request_len_unterminated(p) == 2 + Len(p.filename) + 1 + Len(Mode_as_str(p.mode))

Request_len(p) == 2 + Len(p.filename) + 1 + Len(Mode_as_str(p.mode)) + 1

Request_decode(data) ==
    LET opcode == read_opcode(data) IN
    IF opcode # Some(RRQ) /\ opcode # Some(WRQ) THEN None
    ELSE LET rest == SliceFrom(data, 2) IN
         IF ~from_utf8_ok(rest, 1) THEN None
         ELSE LET filename == split_first(rest)
                  part == split_second(rest)
                  mode == IF IsSome(part) THEN Mode_from_str(Unwrap(part)) ELSE None
              IN
              IF IsSome(mode)
              THEN IF Unwrap(opcode) = RRQ
                   THEN Some([type |-> "ReadRequest", filename |-> filename,
                              mode |-> Unwrap(mode)])
                   ELSE Some([type |-> "WriteRequest", filename |-> filename,
                              mode |-> Unwrap(mode)])
              ELSE None

Request_encode_using(p, buf) ==
    RawPacket_new(
        cursor_write(buf, write_u16(Request_opcode(p)) \o p.filename \o <<0>>
                          \o Mode_as_str(p.mode) \o <<0>>),
        Request_len(p))

Request_encode(p) == Request_encode_using(p, Zeroes(Request_len(p)))

----------------------------------------------------------------------------
(* packet.rs: AckPacket *)

AckPacket_new(block_id) == [block_id |-> block_id]

Ack_len(p) == 4

Ack_decode(data) ==
    LET opcode == read_opcode(data) IN
    IF opcode = Some(ACK)
    THEN LET b == read_u16(data, 2) IN
         IF IsSome(b) THEN Some(AckPacket_new(Unwrap(b))) ELSE None
    ELSE None

Ack_encode_using(p, buf) ==
    RawPacket_new(cursor_write(buf, write_u16(ACK) \o write_u16(p.block_id)), Ack_len(p))

Ack_encode(p) == Ack_encode_using(p, Zeroes(Ack_len(p)))

----------------------------------------------------------------------------
(* packet.rs: DataPacketOctet *)

from_slice(block_id, data) == [block_id |-> block_id, data |-> data, len |-> Len(data)]

from_vec(block_id, data, len) == [block_id |-> block_id, data |-> data, len |-> len]

\* DataPacketOctet::data
Data_data(p) == SliceTo(p.data, p.len)

Data_len(p) == 4 + Len(p.data)

Data_decode(data) ==
    LET opcode == read_opcode(data) IN
    IF opcode = Some(DATA)
    THEN LET b == read_u16(data, 2) IN
         IF IsSome(b)
         THEN LET payload == SliceFrom(data, 4) IN
              Some(from_vec(Unwrap(b), payload, Len(payload)))
         ELSE None
    ELSE None

Data_encode_using(p, buf) ==
    RawPacket_new(cursor_write(buf, write_u16(DATA) \o write_u16(p.block_id) \o p.data),
                  Data_len(p))

Data_encode(p) == Data_encode_using(p, Zeroes(Data_len(p)))

----------------------------------------------------------------------------
(* packet.rs: ErrorPacket *)

ErrorPacket_new(error, msg) == [error |-> error, message |-> to_netascii(msg)]

ErrorPacket_message(p) == from_netascii(p.message)

Error_len(p) == 4 + Len(p.message) + 1

Error_decode(data) ==
    LET opcode == read_opcode(data) IN
    IF opcode = Some(ERROR)
    THEN LET code == read_u16(data, 2)
             error == IF IsSome(code) THEN Error_from_u16(Unwrap(code)) ELSE None
         IN
         \* &data[4..] is evaluated whatever the code read: out of range below 4 bytes
         IF Len(data) < 4 THEN Panic
         ELSE LET rest == SliceFrom(data, 4)
                  msg == IF from_utf8_ok(rest, 1) THEN Some(split_first(rest)) ELSE None
              IN
              IF IsSome(error) /\ IsSome(msg)
              THEN Some(ErrorPacket_new(Unwrap(error), Unwrap(msg)))
              ELSE None
    ELSE None

Error_encode_using(p, buf) ==
    RawPacket_new(
        cursor_write(buf, write_u16(ERROR) \o write_u16(p.error) \o p.message \o <<0>>),
        Error_len(p))

Error_encode(p) == Error_encode_using(p, Zeroes(Error_len(p)))

----------------------------------------------------------------------------
(* Initial state: a Client constructed for the server address, get not yet called; *)
(* the codec harness idle.                                                          *)

SrvIp == "127.0.0.1"
OtherIp == "10.0.0.9"
TFTP_PORT == 69
ServerAddr == [ip |-> SrvIp, port |-> TFTP_PORT]

MAX_DATA_SIZE == 512

Init ==
    /\ pc = "start"
    /\ result = [kind |-> "Running", code |-> 0, message |-> <<>>]
    /\ remote_addr = ServerAddr
    /\ first_packet = TRUE
    /\ current_id = 1
    /\ bufs = <<Zeroes(MAX_DATA_SIZE + 4), Zeroes(MAX_DATA_SIZE + 4)>>
    /\ writer = <<>>
    /\ sent = <<>>
    /\ rx = <<>>
    /\ nrecv = 0
    /\ op = "init"
    /\ arg = <<>>
    /\ res = <<>>
    /\ handlers = <<>>
    /\ thread = 0
    /\ srv_rx = <<>>
    /\ client_new = [current_state |-> [state |-> "SendReadRequest", current_id |-> 0,
                                        data_packet |-> <<>>],
                     remote_addr |-> ServerAddr,
                     writer |-> <<>>,
                     sent |-> <<>>,
                     rx |-> <<>>,
                     nrecv |-> 0,
                     result |-> [kind |-> "Running", code |-> 0, message |-> <<>>]]

----------------------------------------------------------------------------
(* The codec and the transcoder applied to inputs drawn from bounded sets. *)

\* characters of the strings handed to the transcoder
Chars == {NUL, LF, CR, 97}
\* characters of file names and error messages (a NUL ends the field on the wire)
TextChars == {LF, CR, 97}
BlockIds == {0, 1, 255, 256, 65535}
DataBytes == {0, 1, 255}
\* first two bytes of the raw buffers handed to decode, as a 16-bit value
OpcodeValues == {0, 1, 2, 3, 4, 5, 6, 261, 65535}
\* the bytes after them
TailBytes == {0, 1, 111, 255}

\* Every prefix of an opcode followed by a tail: the buffers of length 0..MaxBufLen
RawBuffers ==
    LET full == {write_u16(o) \o t : o \in OpcodeValues, t \in SeqsUpTo(TailBytes, MaxBufLen - 2)}
    IN UNION {{SliceTo(b, n) : n \in 0..Len(b)} : b \in full}

NetasciiRoundTrip ==
    \E s \in SeqsUpTo(Chars, MaxStrLen) :
        LET e == to_netascii(s) IN
        /\ op = "init"
        /\ op' = "netascii_roundtrip"
        /\ arg' = s
        /\ res' = from_netascii(e)
        /\ UNCHANGED <<sessionVars, serverVars, client_new>>

ToNetascii ==
    \E s \in SeqsUpTo(Chars, MaxStrLen) :
        /\ op = "init"
        /\ op' = "to_netascii"
        /\ arg' = s
        /\ res' = to_netascii(s)
        /\ UNCHANGED <<sessionVars, serverVars, client_new>>

FromNetascii ==
    \E s \in SeqsUpTo(Chars, MaxStrLen) :
        /\ op = "init"
        /\ op' = "from_netascii"
        /\ arg' = s
        /\ res' = from_netascii(s)
        /\ UNCHANGED <<sessionVars, serverVars, client_new>>

\* a RawPacket whose packet takes the first len bytes of a buffer, handed to get_buffer
GetBuffer ==
    \E buf \in SeqsUpTo(DataBytes, MaxBufLen) : \E len \in 0..Len(buf) :
        /\ op = "init"
        /\ op' = "get_buffer"
        /\ arg' = RawPacket_new(buf, len)
        /\ res' = get_buffer(RawPacket_new(buf, len))
        /\ UNCHANGED <<sessionVars, serverVars, client_new>>

RequestRoundTrip ==
    \E filename \in SeqsUpTo(TextChars, MaxStrLen), mode \in Modes, read \in BOOLEAN :
        LET packet == IF read THEN read_request(filename, mode)
                      ELSE write_request(filename, mode)
        IN
            /\ op = "init"
            /\ op' = "request_roundtrip"
            /\ arg' = packet
            /\ res' = Request_decode(packet_buf(Request_encode(packet)))
            /\ UNCHANGED <<sessionVars, serverVars, client_new>>

AckRoundTrip ==
    \E id \in BlockIds :
        LET packet == AckPacket_new(id) IN
        /\ op = "init"
        /\ op' = "ack_roundtrip"
        /\ arg' = packet
        /\ res' = Ack_decode(packet_buf(Ack_encode(packet)))
        /\ UNCHANGED <<sessionVars, serverVars, client_new>>

DataRoundTrip ==
    \E id \in BlockIds, data \in SeqsUpTo(DataBytes, MaxDataLen) :
        LET packet == from_slice(id, data) IN
        /\ op = "init"
        /\ op' = "data_roundtrip"
        /\ arg' = packet
        /\ res' = Data_decode(packet_buf(Data_encode(packet)))
        /\ UNCHANGED <<sessionVars, serverVars, client_new>>

ErrorRoundTrip ==
    \E error \in 0..7, msg \in SeqsUpTo(TextChars, MaxStrLen) :
        LET packet == ErrorPacket_new(error, msg) IN
        /\ op = "init"
        /\ op' = "error_roundtrip"
        /\ arg' = packet
        /\ res' = Error_decode(packet_buf(Error_encode(packet)))
        /\ UNCHANGED <<sessionVars, serverVars, client_new>>

DataEncode ==
    \E id \in BlockIds, data \in SeqsUpTo(DataBytes, MaxDataLen) :
        \E len \in 0..Len(data) :
            LET packet == from_vec(id, data, len) IN
            /\ op = "init"
            /\ op' = "data_encode"
            /\ arg' = packet
            /\ res' = packet_buf(Data_encode(packet))
            /\ UNCHANGED <<sessionVars, serverVars, client_new>>

\* a file name longer than MaxStrLen, with an extension: "foo.txt"
FooTxt == <<102, 111, 111, 46, 116, 120, 116>>

RequestEncode ==
    \E filename \in SeqsUpTo(TextChars, MaxStrLen) \cup {FooTxt}, mode \in Modes,
       read \in BOOLEAN :
        LET packet == IF read THEN read_request(filename, mode)
                      ELSE write_request(filename, mode)
        IN
            /\ op = "init"
            /\ op' = "request_encode"
            /\ arg' = [filename |-> filename, mode |-> mode, read |-> read]
            /\ res' = packet_buf(Request_encode(packet))
            /\ UNCHANGED <<sessionVars, serverVars, client_new>>

\* the block id a session expects or sends next, after the block id x
BlockIdIncrement ==
    \E x \in BlockIds : \E next \in u16_add_one(x) :
        /\ op = "init"
        /\ op' = "block_id_increment"
        /\ arg' = x
        /\ res' = next
        /\ UNCHANGED <<sessionVars, serverVars, client_new>>

AckEncode ==
    \E id \in BlockIds :
        /\ op = "init"
        /\ op' = "ack_encode"
        /\ arg' = id
        /\ res' = packet_buf(Ack_encode(AckPacket_new(id)))
        /\ UNCHANGED <<sessionVars, serverVars, client_new>>

\* what follows the opcode of a request: the two well-formed tails for the file "f",
\* and tails that lack the last NUL, go on after it, spell the mode in capitals, name
\* an unknown mode ("mail"), lack the mode, lack every NUL, or hold a byte that is
\* not UTF-8
RequestTails ==
    { <<102, 0>> \o STR_OCTET \o <<0>>,
      <<102, 0>> \o STR_NETASCII \o <<0>>,
      <<102, 0>> \o STR_OCTET,
      <<102, 0>> \o STR_OCTET \o <<0, 120>>,
      <<102, 0>> \o STR_OCTET \o <<0, 0>>,
      <<102, 0>> \o STR_OCTET \o <<0, 255>>,
      <<102, 0, 79, 67, 84, 69, 84, 0>>,
      <<102, 0, 109, 97, 105, 108, 0>>,
      <<102, 0>>,
      <<102>>,
      <<255, 0>> \o STR_OCTET \o <<0>> }

RequestBuffers == { write_u16(o) \o t : o \in {RRQ, WRQ, DATA}, t \in RequestTails }

\* 16-bit values around the members of both enumerations, and the largest
U16Values == (0..9) \cup {255, 256, 257, 65535}

OpcodeFromU16 ==
    \E v \in U16Values :
        /\ op = "init"
        /\ op' = "opcode_from_u16"
        /\ arg' = v
        /\ res' = Opcode_from_u16(v)
        /\ UNCHANGED <<sessionVars, serverVars, client_new>>

ErrorFromU16 ==
    \E v \in U16Values :
        /\ op = "init"
        /\ op' = "error_from_u16"
        /\ arg' = v
        /\ res' = Error_from_u16(v)
        /\ UNCHANGED <<sessionVars, serverVars, client_new>>

DecodeRequest == \E b \in RawBuffers \cup RequestBuffers :
    /\ op = "init"
    /\ op' = "decode_request"
    /\ arg' = b
    /\ res' = Request_decode(b)
    /\ UNCHANGED <<sessionVars, serverVars, client_new>>

DecodeAck == \E b \in RawBuffers :
    /\ op = "init"
    /\ op' = "decode_ack"
    /\ arg' = b
    /\ res' = Ack_decode(b)
    /\ UNCHANGED <<sessionVars, serverVars, client_new>>

\* Data packets of block 1 around the largest payload: 511, 512 and 513 bytes
LongDataBuffers ==
    { write_u16(DATA) \o write_u16(1) \o [i \in 1..n |-> 1] :
        n \in {MAX_DATA_SIZE - 1, MAX_DATA_SIZE, MAX_DATA_SIZE + 1} }

DecodeData == \E b \in RawBuffers \cup LongDataBuffers :
    /\ op = "init"
    /\ op' = "decode_data"
    /\ arg' = b
    /\ res' = Data_decode(b)
    /\ UNCHANGED <<sessionVars, serverVars, client_new>>

\* error packets with a longer message: with text after the first NUL, without any
\* NUL, with a carriage return and a line feed, with a byte that is not UTF-8; with
\* the codes 1, 7 and 8
ErrorTails ==
    { <<97, 98, 0>>, <<97, 0, 98, 0>>, <<97, 98>>, <<97, CR, LF, 98, 0>>,
      <<CR, NUL, 97, 0>>, <<97, 255, 0>> }

ErrorBuffers == { write_u16(ERROR) \o write_u16(c) \o t : c \in {1, 7, 8}, t \in ErrorTails }

DecodeError == \E b \in RawBuffers \cup ErrorBuffers :
    /\ op = "init"
    /\ op' = "decode_error"
    /\ arg' = b
    /\ res' = Error_decode(b)
    /\ UNCHANGED <<sessionVars, serverVars, client_new>>

NextCodec ==
    \/ NetasciiRoundTrip
    \/ ToNetascii
    \/ FromNetascii
    \/ GetBuffer
    \/ RequestRoundTrip
    \/ AckRoundTrip
    \/ DataRoundTrip
    \/ ErrorRoundTrip
    \/ DataEncode
    \/ RequestEncode
    \/ BlockIdIncrement
    \/ AckEncode
    \/ OpcodeFromU16
    \/ ErrorFromU16
    \/ DecodeRequest
    \/ DecodeAck
    \/ DecodeData
    \/ DecodeError

SpecCodec == Init /\ [][NextCodec]_vars

----------------------------------------------------------------------------
(* client.rs: Client::get, one action per step of the blocking loop.  The peer and  *)
(* the network are the environment: any datagram of Datagrams may arrive from any    *)
(* address of PeerAddrs, the wait may expire, and a send or a write may fail.        *)

PeerPorts == {50001, 50002}
PeerAddrs ==
    {[ip |-> SrvIp, port |-> p] : p \in PeerPorts} \cup {[ip |-> OtherIp, port |-> 50001]}

\* payloads: n bytes, all equal to a value that tells the blocks apart
Payload(id, n) == [i \in 1..n |-> 64 + id]
DataDatagram(id, n) == packet_buf(Data_encode(from_slice(id, Payload(id, n))))

\* blocks 1..3, short (300 bytes) and full; an empty block 2; a block 1 one byte too long
DataDatagrams ==
    {DataDatagram(id, n) : id \in {1, 2, 3}, n \in {300, MAX_DATA_SIZE}}
        \cup {DataDatagram(2, 0), DataDatagram(1, MAX_DATA_SIZE + 1)}

\* well-formed error packets, as a peer using this codec encodes them
ErrorDatagrams ==
    { packet_buf(Error_encode(ErrorPacket_new(1, <<109>>))),
      packet_buf(Error_encode(ErrorPacket_new(3, <<97, LF, 98>>))),
      packet_buf(Error_encode(ErrorPacket_new(0, <<>>))) }

\* everything else: other opcodes, an unknown error code, truncated and empty datagrams
OtherDatagrams ==
    { packet_buf(Ack_encode(AckPacket_new(1))),
      packet_buf(Request_encode(read_request(<<102>>, "Octet"))),
      <<0, 5, 0, 8, 109, 0>>,
      <<0, 5>>,
      <<0, 5, 0>>,
      <<0, 3, 0>>,
      <<0, 9, 0, 1>>,
      <<>> }

Datagrams == DataDatagrams \cup ErrorDatagrams \cup OtherDatagrams

\* the file asked for
Paths == {<<102, LF>>}

Running == [kind |-> "Running", code |-> 0, message |-> <<>>]
Ok == [kind |-> "Ok", code |-> 0, message |-> <<>>]
TftpError(error, message) == [kind |-> "TftpError", code |-> error, message |-> message]
IoError == [kind |-> "IoError", code |-> 0, message |-> <<>>]
Panicked == [kind |-> "Panic", code |-> 0, message |-> <<>>]

\* Vec::pop and what it leaves
Top(v) == v[Len(v)]
Pop(v) == SubSeq(v, 1, Len(v) - 1)

\* UdpSocket::recv_from into buf: the datagram, cut to the buffer's size, over its start
recv_into(buf, dg) ==
    LET n == IF Len(dg) < Len(buf) THEN Len(dg) ELSE Len(buf) IN
    [buf |-> SliceTo(dg, n) \o SubSeq(buf, n + 1, Len(buf)), n |-> n]

\* lines 62-70: encode and send the read request, set up the loop
SendRequest ==
    /\ pc = "start"
    /\ \E path \in Paths, mode \in Modes, send_ok \in BOOLEAN :
        LET read_req == read_request(path, mode)
            encoded == Request_encode_using(read_req, Top(bufs))
        IN
        IF send_ok
        THEN /\ sent' = Append(sent, [to |-> remote_addr, data |-> packet_buf(encoded)])
             /\ bufs' = Append(Pop(bufs), get_buffer(encoded))
             /\ pc' = "recv"
             /\ result' = result
        ELSE /\ sent' = sent
             /\ bufs' = Pop(bufs)
             /\ pc' = "failed"
             /\ result' = IoError
    /\ first_packet' = TRUE
    /\ current_id' = 1
    /\ UNCHANGED <<remote_addr, writer, rx, nrecv, op, arg, res, serverVars, client_new>>

\* lines 76-79 without the comparison of the ip: the first datagram's address is taken
learn_port_any(addr, first, from) ==
    IF first THEN from ELSE addr

\* lines 76-79: the port of the first datagram from the server's ip becomes the port
\* of remote_addr
learn_port(addr, first, from) ==
    IF first /\ addr.ip = from.ip THEN [addr EXCEPT !.port = from.port] ELSE addr

learn_first(addr, first, from) ==
    IF first /\ addr.ip = from.ip THEN FALSE ELSE first

\* the check of line 80 with the port left out
tid_mismatch_ip_only(from, addr) == from.ip # addr.ip

\* line 80: from != self.remote_addr
tid_mismatch(from, addr) == from # addr

\* the check of line 88 letting earlier blocks through
in_sequence_or_earlier(id, block_id) == block_id <= id

\* line 88: current_id == data_packet.block_id()
in_sequence(id, block_id) == id = block_id

\* the check of line 94 taking only an empty block for the last one
is_last_block_empty_only(data) == Len(data) = 0

\* the check of line 94 with <= for <
is_last_block_inclusive(data) == Len(data) <= MAX_DATA_SIZE

\* line 94: data_packet.data().len() < MAX_DATA_SIZE
is_last_block(data) == Len(data) < MAX_DATA_SIZE

\* line 99: current_id += 1 on a u16 (the wrap of a build without overflow checks;
\* MaxRecv keeps current_id far below 65535)
next_id(id) == (id + 1) % U16

\* the error surfaced with the message dropped
surfaced_error_no_message(error) == TftpError(error.error, <<>>)

\* lines 108-110: the error returned for a decoded error packet
surfaced_error(error) ==
    LET m == ErrorPacket_message(error) IN
    TftpError(error.error, IF IsSome(m) THEN Unwrap(m) ELSE <<>>)

\* lines 72-124: one turn of the loop in which recv_from returns a datagram
Recv ==
    /\ pc = "recv"
    /\ nrecv < MaxRecv
    /\ \E dg \in Datagrams, from \in PeerAddrs :
        LET got == recv_into(Top(bufs), dg)
            rest == Pop(bufs)
            addr == learn_port(remote_addr, first_packet, from)
            packet == RawPacket_new(got.buf, got.n)
            data_packet == Data_decode(packet_buf(packet))
            error == Error_decode(packet_buf(packet))
        IN
        /\ rx' = <<[from |-> from, data |-> dg]>>
        /\ nrecv' = nrecv + 1
        /\ remote_addr' = addr
        /\ first_packet' = learn_first(remote_addr, first_packet, from)
        /\ IF tid_mismatch(from, addr)
           THEN /\ bufs' = Append(rest, got.buf)
                /\ UNCHANGED <<pc, result, current_id, writer, sent>>
           ELSE IF IsSome(data_packet)
           THEN LET dp == Unwrap(data_packet) IN
                IF in_sequence(current_id, dp.block_id)
                THEN \E write_ok \in BOOLEAN, send_ok \in BOOLEAN :
                     IF ~write_ok
                     THEN /\ pc' = "failed"
                          /\ result' = IoError
                          /\ bufs' = rest
                          /\ UNCHANGED <<current_id, writer, sent>>
                     ELSE LET ack == AckPacket_new(dp.block_id)
                              encoded == Ack_encode_using(ack, Top(rest))
                          IN
                          /\ writer' = writer \o Data_data(dp)
                          /\ IF ~send_ok
                             THEN /\ pc' = "failed"
                                  /\ result' = IoError
                                  /\ bufs' = Pop(rest)
                                  /\ UNCHANGED <<current_id, sent>>
                             ELSE /\ sent' = Append(sent, [to |-> addr,
                                                           data |-> packet_buf(encoded)])
                                  /\ IF is_last_block(Data_data(dp))
                                     THEN /\ pc' = "done"
                                          /\ result' = Ok
                                          /\ bufs' = Pop(rest)
                                          /\ current_id' = current_id
                                     ELSE /\ bufs' = Append(Append(Pop(rest),
                                                                   get_buffer(encoded)),
                                                            get_buffer(packet))
                                          /\ current_id' = next_id(current_id)
                                          /\ UNCHANGED <<pc, result>>
                ELSE /\ bufs' = Append(rest, get_buffer(packet))
                     /\ UNCHANGED <<pc, result, current_id, writer, sent>>
           ELSE IF error = Panic
           THEN /\ pc' = "panicked"
                /\ result' = Panicked
                /\ bufs' = rest
                /\ UNCHANGED <<current_id, writer, sent>>
           ELSE IF IsSome(error)
           THEN /\ pc' = "failed"
                /\ result' = surfaced_error(Unwrap(error))
                /\ bufs' = rest
                /\ UNCHANGED <<current_id, writer, sent>>
           ELSE /\ bufs' = Append(rest, get_buffer(packet))
                /\ UNCHANGED <<pc, result, current_id, writer, sent>>
    /\ UNCHANGED <<op, arg, res, serverVars, client_new>>

\* lines 125-128: recv_from fails (the one second wait expired, or the socket failed)
RecvErr ==
    /\ pc = "recv"
    /\ pc' = "failed"
    /\ result' = IoError
    /\ UNCHANGED <<bufs, remote_addr, first_packet, current_id, writer, sent, rx, nrecv,
                   op, arg, res, serverVars, client_new>>

\* lines 137-194: Client::put; every statement of its body but the last is commented
\* out, so it returns Ok(()) whatever the path, the mode and the reader
Put ==
    /\ pc = "start"
    /\ \E path \in Paths, mode \in Modes :
        /\ pc' = "put_returned"
        /\ result' = Ok
    /\ UNCHANGED <<bufs, remote_addr, first_packet, current_id, writer, sent, rx, nrecv,
                   op, arg, res, serverVars, client_new>>

Next ==
    \/ SendRequest
    \/ Recv
    \/ RecvErr
    \/ Put

Spec == Init /\ [][Next]_vars

\* That the loop of get takes its next turn: line 72 bounds the wait of recv_from to
\* one second, so recv_from returns, with a datagram or with the error of the wait
\* expired (the peer has MaxRecv datagrams to send at most)
SpecLive == Init /\ [][Next]_vars /\ WF_vars(Recv \/ RecvErr)

----------------------------------------------------------------------------
(* server.rs: start, RequestAcceptor and RequestHandler on the reactor of tokio-core. *)
(* One thread runs the reactor; it polls the acceptor and every spawned handler, and *)
(* a poll returns when it is done or when a socket has nothing for it.  The clients   *)
(* and the network are the environment.                                               *)

MaxHandlers == 2

SERVER_PORT == 9999
\* the length of the vector every handler serves: vec![1; 1025]
FILE_LEN == 1025
\* the size of the buffers of the server: vec![0; 512]
SRV_BUF_LEN == 512

\* ports the system hands out for a bind to port 0
EphemeralPorts == {49152 + k : k \in 0..(MaxHandlers - 1)}
\* the port it hands out: one not in use; which one makes no difference to a handler,
\* so the lowest
ephemeral_port(in_use) ==
    CHOOSE p \in EphemeralPorts \ in_use : \A q \in EphemeralPorts \ in_use : p <= q
ClientAddrs == {[ip |-> SrvIp, port |-> 50001], [ip |-> OtherIp, port |-> 50002]}

\* what a client may send to the listening socket: a read and a write request, and
\* datagrams that are no request: an Ack, a request cut short, an empty datagram
RequestDatagrams ==
    { packet_buf(Request_encode(read_request(<<102>>, "Octet"))),
      packet_buf(Request_encode(write_request(<<102>>, "NetAscii"))),
      packet_buf(Ack_encode(AckPacket_new(0))),
      <<0, 1, 102, 0>>,
      <<>> }

\* what may arrive at the socket of a handler: the Ack of block 1 (the block just sent,
\* or an earlier one), and datagrams that are no Ack: an Ack cut short, a Data packet
HandlerDatagrams ==
    { packet_buf(Ack_encode(AckPacket_new(1))),
      <<0, 4, 0>>,
      packet_buf(Data_encode(from_slice(1, <<1>>))) }

\* outcomes of a call on a non-blocking socket
IoOutcomes == {"Ok", "WouldBlock", "Err"}

\* try_nb! with a socket call that does not return while the socket is not ready
try_nb_waits(r) ==
    IF r = "Ok" THEN "Ready" ELSE IF r = "WouldBlock" THEN "Waits" ELSE "Err"

\* try_nb!: the value on success, return Ok(Async::NotReady) from the poll when the
\* call would block, return the error otherwise
try_nb(r) ==
    IF r = "Ok" THEN "Ready" ELSE IF r = "WouldBlock" THEN "NotReady" ELSE "Err"

\* who holds the thread after a socket call of the poll of task i
thread_after(t, i) == IF t = "Waits" THEN i ELSE 0

\* lines 116-125: start binds the listening socket and runs the reactor.  A panic in
\* a poll unwinds through Core::run (line 139) and ends start: pc becomes "panicked"
\* and the reactor is dropped with every future spawned on it
Start ==
    /\ pc = "start"
    /\ pc' = "serving"
    /\ UNCHANGED <<result, remote_addr, first_packet, current_id, bufs, writer, sent, rx,
                   nrecv, op, arg, res, serverVars, client_new>>

\* lines 65-74: RequestHandler::new, on a socket bound to `port`.  Beside the fields
\* of the struct: state ("live", "done" once the future is ready, "failed" once it
\* returned an error), the number of datagrams sent on the socket and the last of
\* them (<<>> or <<[to, data]>>), and the number of Acks received.  The Cursor data
\* is its vector's length and its position
RequestHandler_new(port, client_request) ==
    [ port |-> port,
      client_request |-> client_request,
      data_len |-> FILE_LEN,
      data_pos |-> 0,
      block_id |-> 1,
      send_data |-> TRUE,
      last_id |-> None,
      state |-> "live",
      nsent |-> 0,
      last_sent |-> <<>>,
      acks |-> 0 ]

\* the handlers whose future is still on the reactor
Live(i) == i \in 1..Len(handlers) /\ handlers[i].state = "live"
PortsInUse == {SERVER_PORT} \cup {handlers[i].port : i \in {j \in 1..Len(handlers) : Live(j)}}

\* the reactor polls the acceptor when its thread is not inside another poll (handlers
\* beyond MaxHandlers are left out)
CanAccept == pc = "serving" /\ thread = 0 /\ Len(handlers) < MaxHandlers

\* the reactor polls the future of handler i while it is live, when its thread is not
\* inside the poll of another task
CanPoll(i) == pc = "serving" /\ thread \in {0, i} /\ Live(i)

\* lines 46-52 and 126-137: RequestAcceptor::poll when a datagram has arrived, and the
\* closure of for_each run on the request it yields
Accept ==
    /\ CanAccept
    /\ \E dg \in RequestDatagrams, addr \in ClientAddrs :
        LET got == recv_into(Zeroes(SRV_BUF_LEN), dg)
            packet == Request_decode(packet_buf(RawPacket_new(got.buf, got.n)))
        IN
        /\ srv_rx' = <<[sock |-> 0, from |-> addr, data |-> dg]>>
        /\ IF IsSome(packet)
           THEN /\ handlers' = Append(handlers,
                        RequestHandler_new(ephemeral_port(PortsInUse),
                                           [addr |-> addr, request |-> Unwrap(packet)]))
                /\ pc' = pc
           ELSE /\ pc' = "panicked"
                /\ handlers' = <<>>
    /\ UNCHANGED <<result, remote_addr, first_packet, current_id, bufs, writer, sent, rx,
                   nrecv, op, arg, res, thread, client_new>>

\* Cursor::read into a buffer of SRV_BUF_LEN zeroes, from position pos of vec![1; len]
cursor_read(len, pos) ==
    LET n == IF len - pos < SRV_BUF_LEN THEN len - pos ELSE SRV_BUF_LEN IN
    [n |-> n, buf |-> [i \in 1..SRV_BUF_LEN |-> IF i <= n THEN 1 ELSE 0]]

\* lines 84-87: the transfer is over once the block after the last one is due
past_last_block(h) == IsSome(h.last_id) /\ h.block_id > Unwrap(h.last_id)

\* lines 92-94
last_id_after_read(h, n) == IF n < SRV_BUF_LEN THEN Some(h.block_id) ELSE h.last_id

\* line 102 left out: the handler goes on sending
after_send_to_keep_sending(h, packet_bytes) ==
    [h EXCEPT !.nsent = @ + 1,
              !.last_sent = <<[to |-> h.client_request.addr, data |-> packet_bytes]>>]

\* lines 101-102: the datagram is out, to client_request.addr, and send_data is false
after_send_to(h, packet_bytes) ==
    [h EXCEPT !.nsent = @ + 1,
              !.last_sent = <<[to |-> h.client_request.addr, data |-> packet_bytes]>>,
              !.send_data = FALSE]

\* lines 83-103: the sending half of RequestHandler::poll
HandlerSend(i) ==
    /\ CanPoll(i)
    /\ handlers[i].send_data
    /\ LET h == handlers[i] IN
       IF past_last_block(h)
       THEN /\ handlers' = [handlers EXCEPT ![i].state = "done"]
            /\ thread' = 0
       ELSE LET rd == cursor_read(h.data_len, h.data_pos)
                h1 == [h EXCEPT !.data_pos = @ + rd.n,
                                !.last_id = last_id_after_read(h, rd.n)]
                data_packet == from_vec(h.block_id, rd.buf, rd.n)
                encoded_packet == Data_encode(data_packet)
            IN
            \E r \in IoOutcomes :
                LET t == try_nb(r) IN
                /\ thread' = thread_after(t, i)
                /\ handlers' = [handlers EXCEPT ![i] =
                        IF t = "Ready" THEN after_send_to(h1, packet_buf(encoded_packet))
                        ELSE IF t = "Err" THEN [h1 EXCEPT !.state = "failed"]
                        ELSE h1]
    /\ UNCHANGED <<sessionVars, codecVars, srv_rx, client_new>>

\* lines 105-110: the receiving half of RequestHandler::poll, a datagram having arrived
HandlerRecv(i) ==
    /\ CanPoll(i)
    /\ ~handlers[i].send_data
    /\ \E dg \in HandlerDatagrams, from \in ClientAddrs :
        LET h == handlers[i]
            got == recv_into(Zeroes(SRV_BUF_LEN), dg)
            ack_packet == Ack_decode(packet_buf(RawPacket_new(got.buf, got.n)))
        IN
        /\ srv_rx' = <<[sock |-> i, from |-> from, data |-> dg]>>
        /\ thread' = 0
        /\ IF IsSome(ack_packet)
           THEN \E next \in u16_add_one(h.block_id) :
                    IF next = Panic
                    THEN pc' = "panicked" /\ handlers' = <<>>
                    ELSE /\ pc' = pc
                         /\ handlers' = [handlers EXCEPT ![i].block_id = Unwrap(next),
                                                         ![i].send_data = TRUE,
                                                         ![i].acks = @ + 1]
           ELSE /\ pc' = "panicked"
                /\ handlers' = <<>>
    /\ UNCHANGED <<result, remote_addr, first_packet, current_id, bufs, writer, sent, rx,
                   nrecv, op, arg, res, client_new>>

\* line 106: recv_from has no datagram, or fails
HandlerRecvNone(i) ==
    /\ CanPoll(i)
    /\ ~handlers[i].send_data
    /\ \E r \in {"WouldBlock", "Err"} :
        LET t == try_nb(r) IN
        /\ thread' = thread_after(t, i)
        /\ handlers' = IF t = "Err" THEN [handlers EXCEPT ![i].state = "failed"]
                       ELSE handlers
    /\ UNCHANGED <<sessionVars, codecVars, srv_rx, client_new>>

NextServer ==
    \/ Start
    \/ Accept
    \/ \E i \in 1..MaxHandlers : HandlerSend(i)
    \/ \E i \in 1..MaxHandlers : HandlerRecv(i)
    \/ \E i \in 1..MaxHandlers : HandlerRecvNone(i)

SpecServer == Init /\ [][NextServer]_vars

\* RequestHandler::poll does not depend on the vector behind its Cursor being the one
\* of RequestHandler::new: the lengths of the vectors it is polled over below, 1025
\* among them, with the lengths at and around the multiples of the block size
SourceLens == {0, 1, 512, 1024, FILE_LEN}

\* the handler of RequestHandler::new with `data` a Cursor over vec![1; len]
RequestHandler_over(port, client_request, len) ==
    [RequestHandler_new(port, client_request) EXCEPT !.data_len = len]

\* a handler for a read request is put on the reactor, as lines 126-134 do
SpawnHandler ==
    /\ pc = "start"
    /\ pc' = "serving"
    /\ \E len \in SourceLens, addr \in ClientAddrs :
        handlers' = <<RequestHandler_over(
                        ephemeral_port({SERVER_PORT}),
                        [addr |-> addr,
                         request |-> Unwrap(Request_decode(packet_buf(
                             Request_encode(read_request(<<102>>, "Octet")))))],
                        len)>>
    /\ UNCHANGED <<result, remote_addr, first_packet, current_id, bufs, writer, sent, rx,
                   nrecv, op, arg, res, thread, srv_rx, client_new>>

NextHandler ==
    \/ SpawnHandler
    \/ HandlerSend(1)
    \/ HandlerRecv(1)
    \/ HandlerRecvNone(1)

SpecHandler == Init /\ [][NextHandler]_vars

\* a program of this crate runs a client or the server
NextProgram == Next \/ NextServer

SpecProgram == Init /\ [][NextProgram]_vars

----------------------------------------------------------------------------
(* client_new.rs: get as a state machine driven by the readiness events of one     *)
(* socket.  The socket is registered for reading while the state is ReceivingData *)
(* and for writing while it is SendReadRequest or SendAck, so each event finds    *)
(* the state its readiness belongs to.                                            *)

\* enum ClientStates
SendReadRequest == [state |-> "SendReadRequest", current_id |-> 0, data_packet |-> <<>>]
ReceivingData(id) == [state |-> "ReceivingData", current_id |-> id, data_packet |-> <<>>]
SendAck(data_packet) == [state |-> "SendAck", current_id |-> 0, data_packet |-> <<data_packet>>]
Done == [state |-> "Done", current_id |-> 0, data_packet |-> <<>>]

\* get returns: Err from a try!, Ok(()) once the state is Done; a panic unwinds it
get_failed(c) == [c EXCEPT !.result = IoError]
get_panicked(c) == [c EXCEPT !.result = Panicked]

get_running == client_new.result = Running

\* line 84: self.remote_addr = from, for every datagram received
receive_addr(c, from) == from

\* lines 80-98, recv_from having returned a datagram: the client after it, and the
\* packet decoded or the panic of line 89 (unwrap) or of line 92 (unimplemented!)
receive_data(c, dg, from) ==
    LET got == recv_into(Zeroes(MAX_DATA_SIZE + 4), dg)
        packet == RawPacket_new(got.buf, got.n)
        decoded == Data_decode(packet_buf(packet))
    IN
    [client |-> [c EXCEPT !.remote_addr = receive_addr(c, from),
                          !.rx = <<[from |-> from, data |-> dg]>>,
                          !.nrecv = @ + 1],
     packet |-> IF read_opcode(packet_buf(packet)) = Some(DATA) /\ IsSome(decoded)
                THEN decoded
                ELSE Panic]

\* lines 71-76 and 191-209: the arm SendAck of handle_event, the outcomes of send_to,
\* write_all and reregister given; a set, as the sum of line 206 has two outcomes at
\* 65535
handle_send_ack(c, data_packet, writable, send, write_ok, rereg_ok) ==
    LET ack == AckPacket_new(data_packet.block_id)
        acked == [c EXCEPT !.sent = Append(@, [to |-> c.remote_addr,
                                               data |-> packet_buf(Ack_encode(ack))])]
        written == [acked EXCEPT !.writer = @ \o Data_data(data_packet)]
    IN
    IF send = "Err" THEN {get_failed(c)}
    ELSE IF send = "WouldBlock"
    THEN IF rereg_ok THEN {[c EXCEPT !.current_state = SendAck(data_packet)]}
         ELSE {get_failed(c)}
    ELSE IF ~write_ok THEN {get_failed(acked)}
    ELSE IF Len(Data_data(data_packet)) < MAX_DATA_SIZE
    THEN {[written EXCEPT !.current_state = Done, !.result = Ok]}
    ELSE IF writable /\ ~rereg_ok THEN {get_failed(written)}
    ELSE {IF next = Panic THEN get_panicked(written)
          ELSE [written EXCEPT !.current_state = ReceivingData(Unwrap(next))] :
          next \in u16_add_one(data_packet.block_id)}

\* lines 64-69 and 171-176: the request goes to remote_addr; a send_to that would block
\* is taken for a send (line 68 drops the Option)
NewSendReadRequest ==
    /\ get_running
    /\ client_new.current_state.state = "SendReadRequest"
    /\ \E path \in Paths, mode \in Modes, send \in IoOutcomes, rereg_ok \in BOOLEAN :
        LET encoded == Request_encode(read_request(path, mode))
            requested == [client_new EXCEPT
                             !.sent = Append(@, [to |-> client_new.remote_addr,
                                                 data |-> packet_buf(encoded)])]
            c == IF send = "Ok" THEN requested ELSE client_new
        IN
        client_new' = IF send = "Err" \/ ~rereg_ok THEN get_failed(c)
                      ELSE [c EXCEPT !.current_state = ReceivingData(1)]
    /\ UNCHANGED <<sessionVars, codecVars, serverVars>>

\* lines 177-190: a readable event in ReceivingData, recv_from returning a datagram;
\* a block in sequence is acknowledged in the same call (line 184)
NewReceiveData ==
    /\ get_running
    /\ client_new.current_state.state = "ReceivingData"
    /\ client_new.nrecv < MaxRecv
    /\ \E dg \in Datagrams, from \in PeerAddrs :
        LET r == receive_data(client_new, dg, from) IN
        IF r.packet = Panic
        THEN client_new' = get_panicked(r.client)
        ELSE LET data_packet == Unwrap(r.packet) IN
             IF client_new.current_state.current_id = data_packet.block_id
             THEN \E send \in IoOutcomes, write_ok \in BOOLEAN, rereg_ok \in BOOLEAN :
                     client_new' \in handle_send_ack(r.client, data_packet, FALSE,
                                                     send, write_ok, rereg_ok)
             ELSE client_new' = r.client
    /\ UNCHANGED <<sessionVars, codecVars, serverVars>>

\* lines 179-182: recv_from fails, or has nothing after all and the state stays
NewReceiveNothing ==
    /\ get_running
    /\ client_new.current_state.state = "ReceivingData"
    /\ \E r \in {"WouldBlock", "Err"} :
        client_new' = IF r = "Err" THEN get_failed(client_new) ELSE client_new
    /\ UNCHANGED <<sessionVars, codecVars, serverVars>>

\* lines 191-209: a writable event in SendAck, an Ack having found the socket full
NewSendAck ==
    /\ get_running
    /\ client_new.current_state.state = "SendAck"
    /\ \E send \in IoOutcomes, write_ok \in BOOLEAN, rereg_ok \in BOOLEAN :
        client_new' \in handle_send_ack(client_new, client_new.current_state.data_packet[1],
                                        TRUE, send, write_ok, rereg_ok)
    /\ UNCHANGED <<sessionVars, codecVars, serverVars>>

NextNew ==
    \/ NewSendReadRequest
    \/ NewReceiveData
    \/ NewReceiveNothing
    \/ NewSendAck

SpecNew == Init /\ [][NextNew]_vars

----------------------------------------------------------------------------
(* Claims about the codec and the transcoder (SpecCodec) *)

RoundTripOps == {"request_roundtrip", "ack_roundtrip", "data_roundtrip", "error_roundtrip"}
DecodeOps == {"decode_request", "decode_ack", "decode_data", "decode_error"}

\* C1: for every valid packet p of each packet type, decode(encode(p)) is Some(p).
C1_RoundTrip == op \in RoundTripOps => res = Some(arg)

\* C2: every decode is total: whatever the buffer, it returns None or a packet and
\* never terminates abnormally.
C2_DecodeTotal == op \in DecodeOps => res.tag \in {"None", "Some"}

\* C3: for every string s, from_netascii(to_netascii(s)) succeeds and equals s.
C3_NetasciiRoundTrip == op = "netascii_roundtrip" => res = Some(arg)

\* C3 witness: a string holding a carriage return, a line feed and a NUL went through
C3_Witness ==
    /\ op = "netascii_roundtrip"
    /\ \E i, j, k \in 1..Len(arg) : arg[i] = CR /\ arg[j] = LF /\ arg[k] = NUL
    /\ res = Some(arg)

\* C4: the encoding of a data packet built by from_vec(block_id, data, len) with
\* len <= data.len() is opcode 3, the block id and exactly the bytes of data(), so its
\* length is 4 + data().len().
C4_DataEncodeExact ==
    op = "data_encode" =>
        /\ res = write_u16(DATA) \o write_u16(arg.block_id) \o Data_data(arg)
        /\ Len(res) = 4 + Len(Data_data(arg))

\* C11: a block id of 65535 is followed by the block id 0, the increment being taken
\* modulo 65536: it never ends the session with an overflow failure, and a Data packet
\* with id 0 is then the one in sequence.
C11_BlockIdWraps ==
    op = "block_id_increment" =>
        /\ res = Some((arg + 1) % 65536)
        /\ (arg = 65535 => res = Some(0))

\* the netascii form of a text, written out from RFC 764: LF as CR LF, CR as CR NUL
WireEscaped(t) ==
    LET F[i \in 0..Len(t)] ==
            IF i = 0 THEN <<>>
            ELSE F[i - 1] \o (IF t[i] = 10 THEN <<13, 10>>
                              ELSE IF t[i] = 13 THEN <<13, 0>> ELSE <<t[i]>>)
    IN F[Len(t)]
WireModeText(mode) ==
    IF mode = "NetAscii" THEN <<110, 101, 116, 97, 115, 99, 105, 105>>
    ELSE <<111, 99, 116, 101, 116>>

\* C20: a request is encoded as the opcode in two big-endian bytes (1 to read, 2 to
\* write), the netascii file name, a zero byte, the mode text ("netascii" or "octet")
\* and a zero byte, 2 + filename + 1 + mode + 1 bytes in all; read_request("foo.txt",
\* Octet) is 00 01 66 6F 6F 2E 74 78 74 00 6F 63 74 65 74 00, and a line feed of the
\* file name goes out as CR LF.
C20_RequestEncodeExact ==
    op = "request_encode" =>
        /\ res = <<0, IF arg.read THEN 1 ELSE 2>> \o WireEscaped(arg.filename) \o <<0>>
                    \o WireModeText(arg.mode) \o <<0>>
        /\ Len(res) = 2 + Len(WireEscaped(arg.filename)) + 1 + Len(WireModeText(arg.mode)) + 1
        /\ (arg = [filename |-> FooTxt, mode |-> "Octet", read |-> TRUE] =>
                res = <<0, 1, 102, 111, 111, 46, 116, 120, 116, 0, 111, 99, 116, 101, 116, 0>>)

\* C20 witness: a write request in netascii mode whose file name holds a line feed
\* was encoded, the line feed as CR LF
C20_Witness ==
    /\ op = "request_encode"
    /\ ~arg.read
    /\ arg.mode = "NetAscii"
    /\ arg.filename = <<97, 10, 97>>
    /\ SubSeq(res, 1, 7) = <<0, 2, 97, 13, 10, 97, 0>>

----------------------------------------------------------------------------
(* Claims about Client::get (Spec).  The datagrams are read on the wire format of   *)
(* RFC 1350, independently of the decoders above.                                    *)

\* the datagram as the socket hands it over: cut to the receive buffer's size
Cut(dg) == IF Len(dg) < MAX_DATA_SIZE + 4 THEN dg ELSE SliceTo(dg, MAX_DATA_SIZE + 4)

WireU16(b, i) == 256 * b[i] + b[i + 1]
WireIsData(b) == Len(b) >= 4 /\ WireU16(b, 1) = 3
WireBlockId(b) == WireU16(b, 3)
WirePayload(b) == SubSeq(b, 5, Len(b))
WireAck(id) == <<0, 4, id \div 256, id % 256>>
\* [0, 5][code in 0..7][message][0x00 ...], the message being valid text
WireIsError(b) ==
    /\ Len(b) >= 5
    /\ WireU16(b, 1) = 5
    /\ WireU16(b, 3) \in 0..7
    /\ \E i \in 5..Len(b) : b[i] = 0
    /\ from_utf8_ok(SubSeq(b, 5, Len(b)), 1)
WireErrorCode(b) == WireU16(b, 3)
WireErrorMessage(b) ==
    LET end == CHOOSE i \in 5..Len(b) : b[i] = 0 /\ \A j \in 5..(i - 1) : b[j] # 0
    IN SubSeq(b, 5, end - 1)

\* the datagrams sent after the request
AcksSent == SubSeq(sent, 2, Len(sent))

\* this step is a turn of the loop in which recv_from returned the datagram rx'
Received == pc = "recv" /\ nrecv' = nrecv + 1
RxFrom == rx'[1].from
RxData == Cut(rx'[1].data)
\* the datagram comes from the transfer-ID (as locked by this very datagram at the latest)
FromTid == RxFrom = remote_addr'
IoFailed == result'.kind = "IoError"

\* C5: when the first data block the session accepts is block 1 with a payload shorter
\* than 512 bytes, the GET completes successfully at that step, exactly one Ack (for
\* block 1, to the transfer-ID) has been sent, and the sink holds exactly the payload.
C5_SingleShortBlock ==
    [][ (/\ Received
         /\ current_id = 1
         /\ FromTid
         /\ WireIsData(RxData)
         /\ WireBlockId(RxData) = 1
         /\ Len(WirePayload(RxData)) < 512
         /\ ~IoFailed)
        => /\ pc' = "done"
           /\ result' = Ok
           /\ AcksSent' = <<[to |-> RxFrom, data |-> WireAck(1)]>>
           /\ writer' = WirePayload(RxData)
      ]_vars

\* C5 witness: a GET completed by a single block of 300 bytes
C5_Witness ==
    /\ pc = "done"
    /\ current_id = 1
    /\ Len(writer) = 300
    /\ Len(AcksSent) = 1

\* C6: an in-sequence block with a 512-byte payload is acknowledged and never completes
\* the transfer; the transfer completes exactly when an in-sequence block with a shorter
\* payload has been acknowledged; a sink of 512 bytes at completion took two blocks.
C6_CompletionByLength ==
    [][ Received =>
          LET accepted == FromTid /\ WireIsData(RxData) /\ WireBlockId(RxData) = current_id
              n == Len(WirePayload(RxData))
              acked == sent' = Append(sent, [to |-> remote_addr', data |-> WireAck(current_id)])
          IN
          /\ (accepted /\ ~IoFailed /\ n = 512) =>
                (pc' = "recv" /\ acked /\ current_id' = current_id + 1)
          /\ (accepted /\ ~IoFailed /\ n < 512) => (pc' = "done" /\ acked)
          /\ pc' = "done" => (accepted /\ n < 512 /\ acked)
          /\ (pc' = "done" /\ Len(writer') = 512) => Len(sent') = 3
      ]_vars

\* C6 witness: a 512-byte file completed by a full block and an empty one
C6_Witness ==
    /\ pc = "done"
    /\ current_id = 2
    /\ Len(writer) = 512
    /\ Len(WirePayload(rx[1].data)) = 0

\* C7: once the transfer-ID is locked, a datagram from any other address or port is
\* ignored: no Ack is sent, nothing is written, the expected block id and the
\* transfer-ID are unchanged, and the session neither completes nor fails.
C7_ForeignDatagramIgnored ==
    [][ (Received /\ ~first_packet /\ RxFrom # remote_addr) =>
          /\ sent' = sent
          /\ writer' = writer
          /\ current_id' = current_id
          /\ remote_addr' = remote_addr
          /\ ~first_packet'
          /\ pc' = "recv"
          /\ result' = result
      ]_vars

\* C7 witness: with the transfer-ID locked, the expected data block arrived from the
\* server's ip but another port, and the session still waits
C7_Witness ==
    /\ pc = "recv"
    /\ ~first_packet
    /\ nrecv >= 2
    /\ rx[1].from # remote_addr
    /\ rx[1].from.ip = remote_addr.ip
    /\ WireIsData(rx[1].data)
    /\ WireBlockId(rx[1].data) = current_id

C9_StrayBlockIgnored ==
    [][ (Received /\ FromTid /\ WireIsData(RxData) /\ WireBlockId(RxData) # current_id) =>
          /\ sent' = sent
          /\ writer' = writer
          /\ current_id' = current_id
          /\ pc' = "recv"
          /\ result' = result
      ]_vars

\* C9 witness: a block ahead of the expected one came from the transfer-ID after a
\* block had been accepted, and the session still waits
C9_Witness ==
    /\ pc = "recv"
    /\ ~first_packet
    /\ current_id = 2
    /\ rx[1].from = remote_addr
    /\ WireIsData(rx[1].data)
    /\ WireBlockId(rx[1].data) = 3

\* C10: an Error packet from the transfer-ID, at any point of the session, ends it at
\* once with a failure carrying the packet's code and message; nothing is sent or
\* written for it, and a session that has ended sends nothing more.
C10_ErrorIsFatal ==
    [][ /\ (Received /\ FromTid /\ WireIsError(RxData)) =>
              /\ pc' = "failed"
              /\ result' = TftpError(WireErrorCode(RxData), WireErrorMessage(RxData))
              /\ sent' = sent
              /\ writer' = writer
        /\ pc \in {"failed", "done", "panicked"} => (sent' = sent /\ pc' = pc)
      ]_vars

\* C10 witness: the session failed with the code and text of an Error packet that
\* arrived after a data block had been accepted
C10_Witness ==
    /\ pc = "failed"
    /\ result.kind = "TftpError"
    /\ result.code = 3
    /\ result.message # <<>>
    /\ current_id = 2
    /\ Len(writer) = 512

\* C12: an await step waits a bounded time, and when the wait expires the session
\* retransmits the last packet it sent, up to a fixed budget of retries; only when the
\* budget is spent does it end with a timeout failure.  Hence no session fails on a
\* wait that brought no datagram before it has retransmitted a packet.
C12_RetransmitBeforeTimeout ==
    [][ (pc = "recv" /\ nrecv' = nrecv /\ pc' = "failed") =>
            \E i \in 1..(Len(sent) - 1) : sent[i + 1] = sent[i]
      ]_vars

\* C13: Client::put sends a WriteRequest first, locks the transfer-ID on the Ack of
\* block 0, then sends the input in Data blocks of up to 512 bytes, each acknowledged
\* before the next, and completes only after a block shorter than 512 bytes was sent
\* and acknowledged.  Hence a put that has returned successfully sent a WriteRequest
\* and at least one Data block.
C13_PutSendsRequestAndData ==
    (pc = "put_returned" /\ result = Ok) =>
        /\ Len(sent) >= 2
        /\ WireU16(sent[1].data, 1) = 2
        /\ \E i \in 2..Len(sent) : WireIsData(sent[i].data)

WireIsAck(b) == Len(b) = 4 /\ WireU16(b, 1) = 4
\* [0, 1 or 2][file name][0]["netascii" or "octet"][0]
WireIsRequest(b) ==
    /\ Len(b) >= 4
    /\ WireU16(b, 1) \in {1, 2}
    /\ \E mode \in Modes :
        LET tail == <<0>> \o WireModeText(mode) \o <<0>> IN
        /\ Len(b) >= 2 + Len(tail)
        /\ SubSeq(b, Len(b) - Len(tail) + 1, Len(b)) = tail

\* C15: while Client::get awaits Data, a well-formed packet from the transfer-ID with
\* another opcode that is no Error (an Ack, a read or a write request) ends the
\* session with a failure.
C15_UnexpectedOpcodeIsFatal ==
    [][ (Received /\ FromTid /\ (WireIsAck(RxData) \/ WireIsRequest(RxData))) =>
            pc' = "failed"
      ]_vars

----------------------------------------------------------------------------
(* Claims about the sessions of both programs (SpecProgram) and about the server     *)
(* (SpecServer)                                                                       *)

\* C14: a live session (Client::get, the GET state machine of client_new, a
\* RequestHandler of the server) that receives a datagram, whatever its bytes, either
\* goes on or ends with a failure value; it never panics.
C14_NoPanic == pc # "panicked"

\* this step is a poll of the RequestAcceptor in which recv_from returned srv_rx'
Accepted == pc = "serving" /\ srv_rx' # srv_rx /\ srv_rx'[1].sock = 0

\* C16: a datagram that does not decode as a RequestPacket is dropped by the
\* RequestAcceptor: no reply, no session spawned, and the server goes on serving.
C16_UndecodableDropped ==
    [][ (Accepted /\ ~WireIsRequest(srv_rx'[1].data)) =>
            (pc' = "serving" /\ handlers' = handlers)
      ]_vars

\* C17: every session spawned for an accepted request has a socket of its own on an
\* ephemeral port, and plays the role opposite to the request: for a read request it
\* sends Data, for a write request it sends the Ack of block 0 and awaits Data.
C17_SessionOfOppositeRole ==
    \A i \in 1..Len(handlers) :
        LET h == handlers[i] IN
        /\ h.port # SERVER_PORT
        /\ \A j \in 1..Len(handlers) : (j # i /\ Live(i) /\ Live(j)) => handlers[j].port # h.port
        /\ h.last_sent # <<>> =>
              IF h.client_request.request.type = "WriteRequest"
              THEN h.last_sent[1].data = WireAck(0)
              ELSE WireIsData(h.last_sent[1].data)

\* C18: the sessions of the server run independently: a RequestHandler that is stalled
\* or slow never keeps the server from accepting a new request nor another session
\* from going on.  While the reactor runs, a request can be accepted whenever a
\* handler can still be spawned, every live handler can take its next step, and a
\* step of the server changes the state of one handler at most.
C18_StalledHandlersBlockNothing ==
    [][ pc' = "serving" =>
            /\ (Len(handlers') < MaxHandlers => CanAccept')
            /\ \A i \in 1..Len(handlers') : Live(i)' => CanPoll(i)'
            /\ \A i, j \in 1..Len(handlers) :
                   (handlers'[i] # handlers[i] /\ j # i) => handlers'[j] = handlers[j]
      ]_vars

\* C18 witness: the first handler has sent block 1 and still waits for its Ack, while
\* the second, spawned for another client, is two blocks further
C18_Witness ==
    /\ pc = "serving"
    /\ Len(handlers) = 2
    /\ Live(1) /\ handlers[1].nsent = 1 /\ handlers[1].acks = 0
    /\ Live(2) /\ handlers[2].nsent = 3 /\ handlers[2].acks = 2
    /\ handlers[1].client_request.addr # handlers[2].client_request.addr

\* C19: the sessions run in lockstep.  A RequestHandler sends a Data block only when
\* every block it sent before has been followed by an Ack received, the blocks being
\* numbered 1, 2, ... in the order sent; Client::get sends an Ack only in the step in
\* which it received the Data block of the expected id from the transfer-ID, and for
\* that id.  So a session has one unacknowledged datagram in flight at most.
C19_Lockstep ==
    [][ /\ \A i \in 1..Len(handlers) :
              (i <= Len(handlers') /\ handlers'[i].nsent # handlers[i].nsent) =>
                  /\ handlers'[i].nsent = handlers[i].nsent + 1
                  /\ handlers[i].acks = handlers[i].nsent
                  /\ WireIsData(handlers'[i].last_sent[1].data)
                  /\ WireBlockId(handlers'[i].last_sent[1].data) = handlers[i].nsent + 1
        /\ (pc = "recv" /\ sent' # sent) =>
              /\ Received
              /\ FromTid
              /\ WireIsData(RxData)
              /\ WireBlockId(RxData) = current_id
              /\ sent' = Append(sent, [to |-> remote_addr', data |-> WireAck(current_id)])
      ]_vars

\* C19 witness: a handler has sent its third block, after the Acks of the first two
C19_Witness ==
    \E i \in 1..Len(handlers) :
        /\ handlers[i].nsent = 3
        /\ handlers[i].acks = 2
        /\ WireBlockId(handlers[i].last_sent[1].data) = 3
        /\ ~handlers[i].send_data

----------------------------------------------------------------------------
(* Claims about the decoders and the enumerations (SpecCodec) *)

\* C21: an Ack is a packet of 4 bytes: its encoding is exactly 0, 4 and the block id
\* in two big-endian bytes, and AckPacket::decode fails whenever the buffer is not
\* exactly 4 bytes long (shorter or longer) or its opcode is not Ack.
C21_AckFixedFourBytes ==
    /\ op = "ack_encode" => res = <<0, 4, arg \div 256, arg % 256>>
    /\ op = "decode_ack" =>
          IF Len(arg) = 4 /\ WireU16(arg, 1) = 4
          THEN res = Some(AckPacket_new(WireU16(arg, 3)))
          ELSE res = None

\* C22: DataPacketOctet::decode accepts a Data packet whose payload is 0 to 512 bytes
\* long, and fails on a Data packet whose payload is longer than 512 bytes.
C22_DataPayloadAtMost512 ==
    (op = "decode_data" /\ WireIsData(arg)) =>
        IF Len(WirePayload(arg)) <= 512
        THEN /\ IsSome(res)
             /\ Unwrap(res).block_id = WireBlockId(arg)
             /\ Data_data(Unwrap(res)) = WirePayload(arg)
        ELSE res = None

\* [0, 1 or 2][file name: UTF-8 without NUL][0]["netascii" or "octet"][0] and no more
WireStrictRequestMode(b, mode) ==
    LET tail == <<0>> \o WireModeText(mode) \o <<0>> IN
    /\ Len(b) >= 2 + Len(tail)
    /\ WireU16(b, 1) \in {1, 2}
    /\ SubSeq(b, Len(b) - Len(tail) + 1, Len(b)) = tail
    /\ \A i \in 3..(Len(b) - Len(tail)) : b[i] # 0
    /\ from_utf8_ok(SubSeq(b, 3, Len(b) - Len(tail)), 1)

\* C23: RequestPacket::decode succeeds exactly when the opcode is RRQ or WRQ and the
\* bytes after it are two NUL-ended fields and nothing more, a UTF-8 file name and the
\* mode "netascii" or "octet" in that very spelling; a missing mode, a missing last
\* NUL, bytes after the second NUL, another case and an unknown mode all fail.
C23_RequestDecodeStrict ==
    op = "decode_request" =>
        IF \E mode \in Modes : WireStrictRequestMode(arg, mode)
        THEN \E mode \in Modes :
                /\ WireStrictRequestMode(arg, mode)
                /\ res = Some([type |-> IF WireU16(arg, 1) = 1 THEN "ReadRequest"
                                        ELSE "WriteRequest",
                               filename |-> SubSeq(arg, 3, Len(arg) - Len(WireModeText(mode)) - 2),
                               mode |-> mode])
        ELSE res = None

\* the text of a message field: the bytes from position 5 up to the first NUL (all of
\* them when there is none)
WireTextToNul(b) ==
    LET ends == {i \in 5..Len(b) : b[i] = 0}
        end == IF ends = {} THEN Len(b) + 1
               ELSE CHOOSE i \in ends : \A j \in ends : i <= j
    IN SubSeq(b, 5, end - 1)

\* C24: ErrorPacket::decode fails when the opcode is not Error, when the code is not
\* one of 0..7 and when the message bytes are not UTF-8; otherwise it returns the code
\* and the text of the message up to the first NUL.
C24_ErrorDecode ==
    op = "decode_error" =>
        IF /\ Len(arg) >= 4
           /\ WireU16(arg, 1) = 5
           /\ WireU16(arg, 3) \in 0..7
           /\ from_utf8_ok(SubSeq(arg, 5, Len(arg)), 1)
        THEN /\ IsSome(res)
             /\ Unwrap(res).error = WireU16(arg, 3)
             /\ ErrorPacket_message(Unwrap(res)) = Some(WireTextToNul(arg))
        ELSE res = None

\* C25: Opcode::from_u16 and Error::from_u16 are partial: from_u16(v) is the member
\* whose number is v exactly when v is in 1..5 (opcodes), in 0..7 (error codes), and
\* is None, never a default member, for every other 16-bit value.
C25_FromU16Partial ==
    /\ op = "opcode_from_u16" => res = (IF arg \in 1..5 THEN Some(arg) ELSE None)
    /\ op = "error_from_u16" => res = (IF arg \in 0..7 THEN Some(arg) ELSE None)

\* C25 witness: the value just above the last opcode was mapped, to None
C25_Witness == op = "opcode_from_u16" /\ arg = 6 /\ res = None

----------------------------------------------------------------------------
(* Claims about the transcoder alone (SpecCodec) *)

WireHasCrLf(t) == \E i \in 1..Len(t) : t[i] \in {10, 13}

\* C26: to_netascii(s) is s itself when s holds neither CR nor LF; otherwise it is s
\* with every LF written as CR LF and every CR as CR NUL, the other characters kept in
\* their order.
C26_ToNetascii ==
    op = "to_netascii" =>
        /\ ~WireHasCrLf(arg) => res = arg
        /\ res = WireEscaped(arg)

\* C26 witness: a text with a carriage return and a line feed was rewritten
C26_Witness ==
    /\ op = "to_netascii"
    /\ arg = <<97, 13, 10>>
    /\ res = <<97, 13, 0, 13, 10>>

\* netascii read back, from RFC 764: <<TRUE, text>> with CR LF read as LF and CR NUL as
\* CR, <<FALSE, <<>>>> when a CR is followed by anything else or by nothing
WireUnescaped(t) ==
    LET D[i \in 1..(Len(t) + 1)] ==
            IF i > Len(t) THEN <<TRUE, <<>>>>
            ELSE IF t[i] = 13
                 THEN IF i < Len(t) /\ t[i + 1] \in {10, 0}
                      THEN <<D[i + 2][1],
                             <<IF t[i + 1] = 10 THEN 10 ELSE 13>> \o D[i + 2][2]>>
                      ELSE <<FALSE, <<>>>>
                 ELSE <<D[i + 1][1], <<t[i]>> \o D[i + 1][2]>>
    IN D[1]

\* C27: from_netascii(s) is s itself when s holds neither CR nor LF; otherwise every
\* CR LF becomes LF and every CR NUL becomes CR, and the result is None whenever a CR
\* is followed by another character or ends the input.
C27_FromNetascii ==
    op = "from_netascii" =>
        IF ~WireHasCrLf(arg) THEN res = Some(arg)
        ELSE IF WireUnescaped(arg)[1] THEN res = Some(WireUnescaped(arg)[2])
        ELSE res = None

\* C27 witness: a text ending in a carriage return with nothing after it was refused
C27_Witness ==
    /\ op = "from_netascii"
    /\ arg = <<13, 10, 13>>
    /\ res = None


\* C28: RawPacket::get_buffer returns the backing buffer with every byte zero, the
\* bytes past the encoded length included, and with the size it had.
C28_BufferZeroed ==
    op = "get_buffer" =>
        /\ Len(res) = Len(arg.buf)
        /\ \A i \in 1..Len(res) : res[i] = 0

\* C28 witness: a buffer longer than its packet, non-zero past the packet, came back
\* all zero
C28_Witness ==
    /\ op = "get_buffer"
    /\ arg.len = 2
    /\ arg.buf = <<0, 1, 255, 255>>
    /\ res = <<0, 0, 0, 0>>

----------------------------------------------------------------------------
(* Claims about the server's blocks (SpecServer) *)

\* the number of bytes of the served source that fall in block k
WireChunkLen(k) ==
    IF 512 * k <= FILE_LEN THEN 512
    ELSE IF 512 * (k - 1) <= FILE_LEN THEN FILE_LEN - 512 * (k - 1)
    ELSE 0

\* C29: when a RequestHandler has read a final chunk of n < 512 bytes, the Data
\* datagram it sends carries exactly those n bytes, so it is 4 + n bytes long (which is
\* what lets a GET session see the last block and end with the source in its sink).
C29_FinalChunkIsShort ==
    \A i \in 1..Len(handlers) :
        LET h == handlers[i] IN
        (/\ h.last_sent # <<>>
         /\ WireIsData(h.last_sent[1].data)
         /\ WireChunkLen(WireBlockId(h.last_sent[1].data)) < 512) =>
            Len(h.last_sent[1].data) = 4 + WireChunkLen(WireBlockId(h.last_sent[1].data))

----------------------------------------------------------------------------
(* Claims about the get of client_new.rs (SpecNew) *)

\* C30: in the get of client_new the transfer id, the address the Acks go to, is that
\* of the first datagram received and stays: a later datagram from another address is
\* ignored, it is not acknowledged and changes neither the address, nor the block
\* expected, nor the sink.
C30_NewTidFixed ==
    [][ (/\ client_new.nrecv >= 1
         /\ client_new'.nrecv = client_new.nrecv + 1
         /\ client_new'.rx[1].from # client_new.remote_addr) =>
            /\ client_new'.remote_addr = client_new.remote_addr
            /\ client_new'.sent = client_new.sent
            /\ client_new'.writer = client_new.writer
            /\ client_new'.current_state = client_new.current_state
      ]_vars

----------------------------------------------------------------------------
(* Claims about the Acks a RequestHandler takes (SpecServer) *)

\* C31: a RequestHandler is bound to the requester alone: a datagram arriving on its
\* socket from another address or port never advances block_id and never makes it
\* send the next block.
C31_BoundToRequester ==
    [][ \A i \in 1..Len(handlers) :
            (/\ i <= Len(handlers')
             /\ \/ handlers'[i].block_id # handlers[i].block_id
                \/ handlers'[i].send_data /\ ~handlers[i].send_data) =>
                srv_rx'[1].from = handlers[i].client_request.addr
      ]_vars

\* C32: after sending block n the handler advances only on an Ack whose block id is n;
\* an Ack with any other block id leaves block_id as it is and sends nothing new.
C32_MatchingAckOnly ==
    [][ \A i \in 1..Len(handlers) :
            (/\ i <= Len(handlers')
             /\ \/ handlers'[i].block_id # handlers[i].block_id
                \/ handlers'[i].send_data /\ ~handlers[i].send_data) =>
                srv_rx'[1].data = WireAck(handlers[i].block_id)
      ]_vars

----------------------------------------------------------------------------
(* Claims about the blocks a RequestHandler sends (SpecServer) *)

\* this step is a poll of handler i in which send_to sent a datagram
HandlerSent(i) ==
    /\ Live(i)
    /\ i <= Len(handlers')
    /\ handlers'[i].nsent = handlers[i].nsent + 1

\* C33: whatever the readiness of the socket, a send_to that would block included, the
\* blocks a handler sends carry the ids 1, 2, ... and the k-th of them holds the
\* source from byte 512 * (k - 1) on: no chunk read is skipped or sent twice.
C33_NoChunkSkipped ==
    [][ \A i \in 1..Len(handlers) :
            HandlerSent(i) =>
                /\ WireBlockId(handlers'[i].last_sent[1].data) = handlers[i].nsent + 1
                /\ handlers[i].data_pos = 512 * handlers[i].nsent
      ]_vars


\* this step is a poll of handler i that sent a block for which the read returned
\* nothing, the source being at its end
HandlerSentAtEnd(i) ==
    /\ HandlerSent(i)
    /\ handlers[i].data_pos = handlers[i].data_len

----------------------------------------------------------------------------
(* Claims about the sink and the buffers of Client::get (Spec) *)

\* the Acks sent so far are those of the blocks 1..k, in that order, to one address
AcksInOrder ==
    \A j \in 1..Len(AcksSent) :
        /\ AcksSent[j].data = WireAck(j)
        /\ AcksSent[j].to = AcksSent[1].to

\* the datagram of this step is the block the session expects, from the transfer-ID
RxInSequence ==
    /\ Received
    /\ FromTid
    /\ WireIsData(RxData)
    /\ WireBlockId(RxData) = current_id

\* this step neither writes to the sink nor sends
NothingAccepted == writer' = writer /\ sent' = sent

\* this step appends the payload of the block to the sink and sends its Ack
BlockAccepted ==
    /\ RxInSequence
    /\ writer' = writer \o WirePayload(RxData)
    /\ sent' = Append(sent, [to |-> remote_addr', data |-> WireAck(current_id)])

\* this step appends the payload of the block to the sink, fails to send its Ack, and
\* get returns the failure
BlockWrittenAckFailed ==
    /\ RxInSequence
    /\ writer' = writer \o WirePayload(RxData)
    /\ sent' = sent
    /\ IoFailed

\* C35: in Client::get, whatever the datagrams received, the sink is at every moment
\* the payloads of the accepted blocks 1..k in order, each written once, and the Acks
\* sent are exactly those of the blocks 1..k in order; a block whose write fails is not
\* acknowledged and get fails.
C35_SinkAndAcksInStep ==
    [][ /\ AcksInOrder'
        /\ Received => (NothingAccepted \/ BlockAccepted)
        /\ (RxInSequence /\ sent' = sent) => IoFailed
      ]_vars

\* C35 as the code has it: the same, but for the turn in which the send of the Ack
\* fails: the block is then in the sink, unacknowledged, and get returns the failure.
C35_SinkAndAcksUnlessSendFails ==
    [][ /\ AcksInOrder'
        /\ Received => (NothingAccepted \/ BlockAccepted \/ BlockWrittenAckFailed)
        /\ (RxInSequence /\ sent' = sent) => IoFailed
      ]_vars

\* C35 witness: blocks 1 and 2 accepted, a stray datagram in between or not: two full
\* payloads in the sink and the Acks 1 and 2 sent
C35_Witness ==
    /\ pc = "recv"
    /\ Len(writer) = 1024
    /\ writer[1] = 65 /\ writer[513] = 66
    /\ Len(AcksSent) = 2
    /\ AcksSent[2].data = <<0, 4, 0, 2>>

----------------------------------------------------------------------------
(* Claims about the text of an error (SpecCodec) *)

\* C36: for every code c in 0..7 and every message m, those with CR or LF included,
\* decoding the encoding of ErrorPacket::new(c, m) gives a packet whose error() is c
\* and whose message() is m (so a GET session surfaces the text its peer passed).
C36_ErrorMessageRoundTrip ==
    op = "error_roundtrip" =>
        /\ IsSome(res)
        /\ Unwrap(res).error = arg.error
        /\ ErrorPacket_message(Unwrap(res)) = Some(WireUnescaped(arg.message)[2])


\* C37: in Client::get every buffer idle in the pool is all zeros, whatever path the
\* loop took with the datagram before (block in sequence, stray block, packet that does
\* not decode, datagram of another transfer-ID), and the pool holds two buffers at the
\* head of every turn of the loop, so a pop always finds one.
C37_PoolZeroed ==
    /\ \A j \in 1..Len(bufs) : \A p \in 1..Len(bufs[j]) : bufs[j][p] = 0
    /\ pc = "recv" => Len(bufs) = 2

----------------------------------------------------------------------------
(* Claims about the end of Client::get (SpecLive) *)

\* C38: every session of Client::get ends, by completion or by a failure value
\* returned to the caller: once the peer sends no more, the bounded wait expires and
\* get returns.
C38_GetTerminates == (pc = "recv") ~> (pc \in {"done", "failed"})

====
